---------------------------- MODULE Spec2Model ----------------------------
(***************************************************************************)
(* The transaction view pipeline of the transactions page:                 *)
(*   raw collection -> filteredTransactions -> sortedTransactions          *)
(*                  -> paginatedTransactions                               *)
(* together with the page-level load life cycle, the view-state handlers   *)
(* of TransactionsPage, TransactionList and InlineFilters, the debounced   *)
(* SearchBar and the XLSX export.                                          *)
(*                                                                         *)
(* Strings are sequences of one-character strings.  Instants are epoch     *)
(* milliseconds counted from the first modelled day; the local time zone   *)
(* is taken to be UTC without daylight saving.  A JavaScript number is a   *)
(* record [nan, v] so that NaN compares false with everything.             *)
(***************************************************************************)
EXTENDS Integers, Sequences, FiniteSets, TLC

VARIABLES
    transactions,      \* page.tsx:16   raw collection
    loading,           \* page.tsx:17
    error,             \* page.tsx:18   TRUE when an error message is held
    inflight,          \* number of transactionsAPI.getAll() calls awaiting
    selectedStatuses,  \* page.tsx:24   array of statuses
    dateFrom,          \* page.tsx:25   Date | null
    dateTo,            \* page.tsx:26   Date | null
    searchQuery,       \* page.tsx:27
    filteredTransactions, \* page.tsx:56 the memoized filtered collection
    sortField,         \* TransactionList.tsx:41
    sortDirection,     \* TransactionList.tsx:42
    currentPage,       \* TransactionList.tsx:43
    itemsPerPage,      \* TransactionList.tsx:44
    probe,             \* result of the last application of a derived value
    searchInput,       \* part_001:15  searchQuery of SearchBar, the input text
    debouncedSearch,   \* part_001:16  value returned by useDebounce
    timers,            \* timeouts of useDebounce that are pending
    events,            \* keystrokes, clears and onSearchChange calls so far
    now,               \* the clock, in milliseconds
    written,           \* files written by XLSX.writeFile so far
    createFormOpen,    \* page.tsx:21
    isSubmitting,      \* CreateTransactionForm.tsx:69
    formValues,        \* CreateTransactionForm.tsx:79  values held by useForm
    draft,             \* localStorage item 'transaction-form-draft'
    creating,          \* a transactionsAPI.create request is in flight
    created            \* create requests the server has accepted so far

vars == <<transactions, loading, error, inflight, selectedStatuses, dateFrom,
          dateTo, searchQuery, filteredTransactions, sortField, sortDirection,
          currentPage, itemsPerPage, probe, searchInput, debouncedSearch,
          timers, events, now, written, createFormOpen, isSubmitting,
          formValues, draft, creating, created>>

pageVars == <<transactions, loading, error, inflight>>
filterVars == <<selectedStatuses, dateFrom, dateTo, searchQuery>>
listVars == <<sortField, sortDirection, currentPage, itemsPerPage>>
barVars == <<searchInput, debouncedSearch, timers, events>>
formVars == <<createFormOpen, isSubmitting, formValues, draft, creating,
              created>>

-----------------------------------------------------------------------------
(* Bounds of the model *)

\* raw collections delivered by a fetch hold k * LoadStep rows, k in 0..MaxBatches
LoadStep == 11
MaxBatches == 2
\* fetches in flight at once (the mount fetch included)
MaxInflight == 2
\* length of the raw collections drawn for the filter
MaxLen == 2
\* length of the collections drawn for the comparator
MaxSortLen == 3
\* number of rows drawn for the pagination window
MaxRows == 37
\* header clicks that follow the first sort
MaxClicks == 2
\* number of rows drawn for the page buttons
MaxButtonRows == 61
\* clock ticks of a session with the search bar
MaxTicks == 8
\* keystrokes and clears of a session with the search bar
MaxInputs == 3
\* clicks on the export button
MaxExports == 2

-----------------------------------------------------------------------------
(* Values *)

Min(a, b) == IF a < b THEN a ELSE b
Max(a, b) == IF a > b THEN a ELSE b

\* JavaScript numbers
NaN == [nan |-> TRUE, v |-> 0]
Num(n) == [nan |-> FALSE, v |-> n]
JsLt(a, b) == ~a.nan /\ ~b.nan /\ a.v < b.v
JsLe(a, b) == ~a.nan /\ ~b.nan /\ a.v <= b.v
JsGe(a, b) == ~a.nan /\ ~b.nan /\ a.v >= b.v

\* Math.ceil(n / d) for n >= 0, d > 0
Ceil(n, d) == (n + d - 1) \div d

\* TransactionStatus enum and the order of ALL_STATUSES
PENDING == "pending"
CONFIRMED == "confirmed"
FAILED == "failed"
ALL_STATUSES == <<PENDING, CONFIRMED, FAILED>>
Statuses == {ALL_STATUSES[i] : i \in 1..Len(ALL_STATUSES)}

\* optional ISO date strings: undefined, '', an unparseable text, or the ISO
\* text of instant ms
Absent == [kind |-> "absent", ms |-> 0]
EmptyStr == [kind |-> "empty", ms |-> 0]
BadDate == [kind |-> "invalid", ms |-> 0]
Iso(t) == [kind |-> "iso", ms |-> t]

\* Date | null
NullDate == [set |-> FALSE, ms |-> 0]
DateOf(t) == [set |-> TRUE, ms |-> t]

DayMs == 24 * 3600000
Day(k) == k * DayMs

\* characters and String.prototype.toLowerCase
ToLowerChar(c) ==
    CASE c = "A" -> "a"
      [] c = "B" -> "b"
      [] c = "C" -> "c"
      [] c = "D" -> "d"
      [] OTHER -> c
ToLowerCase(s) == [i \in 1..Len(s) |-> ToLowerChar(s[i])]

\* String.prototype.includes
Includes(s, q) ==
    \E i \in 0..(Len(s) - Len(q)) : SubSeq(s, i + 1, i + Len(q)) = q

\* Array.prototype.includes
ArrIncludes(arr, x) == \E i \in 1..Len(arr) : arr[i] = x

Tx(i, st, ts, ca, h, f, t, a) ==
    [id |-> i, status |-> st, timestamp |-> ts, createdAt |-> ca,
     hash |-> h, fromAddress |-> f, toAddress |-> t, amount |-> a]


-----------------------------------------------------------------------------
(* Effective time: new Date(tx.timestamp || tx.createdAt || '') *)

\* truthiness of an optional string: undefined and '' are falsy
Truthy(s) == s.kind \in {"invalid", "iso"}

TimeString(tx) ==
    IF Truthy(tx.timestamp) THEN tx.timestamp
    ELSE IF Truthy(tx.createdAt) THEN tx.createdAt
    ELSE EmptyStr

\* time value of new Date(s): NaN for '' and for an unparseable text
NewDate(s) == IF s.kind = "iso" THEN Num(s.ms) ELSE NaN

TxDate(tx) == NewDate(TimeString(tx))

\* mutant: setHours is missing
SetHoursMissing(t) == t

\* toDate = new Date(dateTo); toDate.setHours(23, 59, 59, 999)
SetHoursEndOfDay(t) ==
    (t - (t % DayMs)) + 23 * 3600000 + 59 * 60000 + 59 * 1000 + 999

-----------------------------------------------------------------------------
(* filteredTransactions, page.tsx:56-91 *)

\* mutant: the length check is missing, an empty selection keeps nothing
StatusFilterUnguarded(filtered, statuses) ==
    SelectSeq(filtered, LAMBDA tx : ArrIncludes(statuses, tx.status))

\* mutant: the selected statuses are excluded instead of kept
StatusFilterExcluding(filtered, statuses) ==
    IF Len(statuses) > 0
    THEN SelectSeq(filtered, LAMBDA tx : ~ArrIncludes(statuses, tx.status))
    ELSE filtered

StatusFilter(filtered, statuses) ==
    IF Len(statuses) > 0
    THEN SelectSeq(filtered, LAMBDA tx : ArrIncludes(statuses, tx.status))
    ELSE filtered

DateFromFilter(filtered, from) ==
    IF from.set
    THEN SelectSeq(filtered, LAMBDA tx : JsGe(TxDate(tx), Num(from.ms)))
    ELSE filtered

DateToFilter(filtered, to) ==
    IF to.set
    THEN SelectSeq(filtered,
                   LAMBDA tx : JsLe(TxDate(tx), Num(SetHoursEndOfDay(to.ms))))
    ELSE filtered

SearchMatch(tx, query) ==
    \/ Includes(ToLowerCase(tx.hash), query)
    \/ Includes(ToLowerCase(tx.fromAddress), query)
    \/ Includes(ToLowerCase(tx.toAddress), query)

\* mutant: the query is not lower-cased
SearchFilterRawQuery(filtered, q) ==
    IF Len(q) > 0
    THEN SelectSeq(filtered, LAMBDA tx : SearchMatch(tx, q))
    ELSE filtered

SearchFilter(filtered, q) ==
    IF Len(q) > 0
    THEN LET query == ToLowerCase(q)
         IN  SelectSeq(filtered, LAMBDA tx : SearchMatch(tx, query))
    ELSE filtered

\* mutant: the search filters the raw rows, dropping the earlier filters
FilteredTransactionsSearchOnRaw(txs, statuses, from, to, q) ==
    IF Len(q) > 0
    THEN SearchFilter(txs, q)
    ELSE DateToFilter(DateFromFilter(StatusFilter(txs, statuses), from), to)

FilteredTransactions(txs, statuses, from, to, q) ==
    SearchFilter(
        DateToFilter(
            DateFromFilter(
                StatusFilter(txs, statuses),
                from),
            to),
        q)

\* useMemo(..., [transactions, selectedStatuses, dateFrom, dateTo,
\* searchQuery]): the value the render computes from the state
Filtered ==
    FilteredTransactions(transactions, selectedStatuses, dateFrom, dateTo,
                         searchQuery)

-----------------------------------------------------------------------------
(* sortedTransactions, TransactionList.tsx:48-78 *)

Digits == <<"0", "1", "2", "3", "4", "5", "6", "7", "8", "9">>
IsDigit(c) == \E i \in 1..Len(Digits) : Digits[i] = c
DigitValue(c) == (CHOOSE i \in 1..Len(Digits) : Digits[i] = c) - 1

\* number of leading digits of s from position from
RECURSIVE DigitRun(_, _)
DigitRun(s, from) ==
    IF from <= Len(s) /\ IsDigit(s[from]) THEN 1 + DigitRun(s, from + 1) ELSE 0

\* value of the digits s[from .. from + n - 1]
RECURSIVE DigitsValue(_, _, _)
DigitsValue(s, from, n) ==
    IF n = 0 THEN 0
    ELSE 10 * DigitsValue(s, from, n - 1) + DigitValue(s[from + n - 1])

\* parseFloat of an unsigned decimal text, in tenths (amounts of the model
\* carry at most one fractional digit); NaN when no digit leads the text
ParseFloat(s) ==
    LET intLen == DigitRun(s, 1)
        hasDot == Len(s) > intLen /\ s[intLen + 1] = "."
        fracLen == IF hasDot THEN DigitRun(s, intLen + 2) ELSE 0
    IN  IF intLen = 0 /\ fracLen = 0 THEN NaN
        ELSE Num(10 * DigitsValue(s, 1, intLen)
                 + (IF fracLen > 0 THEN DigitValue(s[intLen + 2]) ELSE 0))

\* the literal of a status and the code units of its letters
Alphabet == <<"a", "b", "c", "d", "e", "f", "g", "h", "i", "j", "k", "l", "m",
              "n", "o", "p", "q", "r", "s", "t", "u", "v", "w", "x", "y", "z">>
CharCode(c) == 96 + (CHOOSE i \in 1..Len(Alphabet) : Alphabet[i] = c)
StatusChars(st) ==
    CASE st = PENDING -> <<"p", "e", "n", "d", "i", "n", "g">>
      [] st = CONFIRMED -> <<"c", "o", "n", "f", "i", "r", "m", "e", "d">>
      [] st = FAILED -> <<"f", "a", "i", "l", "e", "d">>

\* a < b on strings: by code units, a proper prefix first
RECURSIVE StrLt(_, _)
StrLt(a, b) ==
    IF b = << >> THEN FALSE
    ELSE IF a = << >> THEN TRUE
    ELSE IF Head(a) = Head(b) THEN StrLt(Tail(a), Tail(b))
    ELSE CharCode(Head(a)) < CharCode(Head(b))

\* aValue / bValue of the comparator, TransactionList.tsx:55-67
SortKey(tx, field) ==
    CASE field = "timestamp" -> TxDate(tx)
      [] field = "amount" -> ParseFloat(tx.amount)
      [] field = "status" -> StatusChars(tx.status)

\* mutant: statuses are ranked by severity, pending < confirmed < failed
SeverityRank(chars) ==
    CASE chars = StatusChars(PENDING) -> 0
      [] chars = StatusChars(CONFIRMED) -> 1
      [] OTHER -> 2
KeyLtBySeverity(ka, kb, field) ==
    IF field = "status" THEN SeverityRank(ka) < SeverityRank(kb)
    ELSE JsLt(ka, kb)

KeyLt(ka, kb, field) ==
    IF field = "status" THEN StrLt(ka, kb) ELSE JsLt(ka, kb)

\* TransactionList.tsx:72-74
CompareKeys(ka, kb, field, direction) ==
    IF KeyLt(ka, kb, field) THEN (IF direction = "asc" THEN -1 ELSE 1)
    ELSE IF KeyLt(kb, ka, field) THEN (IF direction = "asc" THEN 1 ELSE -1)
    ELSE 0

\* the function given to sort, TransactionList.tsx:51-75
CompareFn(a, b, field, direction) ==
    CompareKeys(SortKey(a, field), SortKey(b, field), field, direction)

\* ECMA-262 23.1.3.30: the comparator is consistent on the rows of seq (it
\* reads only their keys)
ConsistentComparator(seq, field, direction) ==
    LET keys == {SortKey(seq[i], field) : i \in 1..Len(seq)}
        cmp(x, y) == CompareKeys(x, y, field, direction)
    IN  \A x \in keys, y \in keys, z \in keys :
           /\ cmp(x, x) = 0
           /\ cmp(x, y) = 0 => cmp(y, x) = 0
           /\ (cmp(x, y) = 0 /\ cmp(y, z) = 0) => cmp(x, z) = 0
           /\ (cmp(x, y) < 0 /\ cmp(y, z) < 0) => cmp(x, z) < 0
           /\ (cmp(x, y) > 0 /\ cmp(y, z) > 0) => cmp(x, z) > 0

\* x put behind the last row of the sorted rows that it does not precede
RECURSIVE InsertRow(_, _, _, _)
InsertRow(sorted, x, field, direction) ==
    IF sorted = << >> THEN <<x>>
    ELSE LET last == sorted[Len(sorted)]
         IN  IF CompareFn(last, x, field, direction) > 0
             THEN Append(InsertRow(SubSeq(sorted, 1, Len(sorted) - 1), x,
                                   field, direction),
                         last)
             ELSE Append(sorted, x)

\* the stable sort every engine yields for a consistent comparator
RECURSIVE StableSort(_, _, _)
StableSort(seq, field, direction) ==
    IF seq = << >> THEN << >>
    ELSE InsertRow(StableSort(SubSeq(seq, 1, Len(seq) - 1), field, direction),
                   seq[Len(seq)], field, direction)

Rearrangements(seq) ==
    {[i \in 1..Len(seq) |-> seq[p[i]]] : p \in Permutations(1..Len(seq))}

\* [...transactions].sort(compareFn): Array.prototype.sort is stable, and
\* with a comparator that is not consistent the order is left to the
\* engine (ECMA-262 23.1.3.30)
SortOutcomes(seq, field, direction) ==
    IF ConsistentComparator(seq, field, direction)
    THEN {StableSort(seq, field, direction)}
    ELSE Rearrangements(seq)

-----------------------------------------------------------------------------
(* Pagination, TransactionList.tsx:80-84 *)

\* mutant: the division rounds down
TotalPagesFloor(n, perPage) == n \div perPage

TotalPages(n, perPage) == Ceil(n, perPage)

\* mutant: the page is taken as 0-based
StartIndexZeroBased(page, perPage) == page * perPage

StartIndex(page, perPage) == (page - 1) * perPage
EndIndex(page, perPage) == StartIndex(page, perPage) + perPage

\* Array.prototype.slice(start, end) for 0 <= start <= end
Slice(seq, start, end) ==
    IF start >= Min(end, Len(seq)) THEN << >>
    ELSE SubSeq(seq, start + 1, Min(end, Len(seq)))

PaginatedTransactions(sorted, page, perPage) ==
    Slice(sorted, StartIndex(page, perPage), EndIndex(page, perPage))

\* mutant: the window is centered whatever the page is
PageNumAlwaysCentered(i, total, page) == page - 2 + i

\* the page buttons, TransactionList.tsx:317-327
PageNum(i, total, page) ==
    IF total <= 5 THEN i + 1
    ELSE IF page <= 3 THEN i + 1
    ELSE IF page >= total - 2 THEN total - 4 + i
    ELSE page - 2 + i

\* the numbers on the rendered page buttons, TransactionList.tsx:316
PageNumbers(total, page) ==
    [i \in 1..Min(5, total) |-> PageNum(i - 1, total, page)]

-----------------------------------------------------------------------------
(* Inputs of the page: what a fetch delivers and what the controls offer *)

\* rows delivered by the API, in turn: pending at the first millisecond
\* of day 1; confirmed, dated by createdAt one millisecond earlier; failed
\* without any time
Row(i) ==
    CASE i % 3 = 1 ->
            Tx(i, PENDING, Iso(Day(1)), Absent,
               <<"a", "B">>, <<"c">>, <<"d">>, <<"1", ".", "5">>)
      [] i % 3 = 2 ->
            Tx(i, CONFIRMED, Absent, Iso(Day(1) - 1),
               <<"c", "c">>, <<"c">>, <<"d">>, <<"0", ".", "2">>)
      [] OTHER ->
            Tx(i, FAILED, Absent, Absent,
               <<"d", "d">>, <<"A", "b">>, <<"d">>, <<"1", "0">>)

Dataset(n) == [i \in 1..n |-> Row(i)]

\* response.data.data of a fetch: an array, or something that is no array
Responses ==
    {[isArray |-> TRUE, rows |-> Dataset(k * LoadStep)] : k \in 0..MaxBatches}
    \cup {[isArray |-> FALSE, rows |-> << >>]}

\* what setTransactions stores for a response:
\* Array.isArray(data) ? data : [], page.tsx:36
Stored(r) == IF r.isArray THEN r.rows ELSE << >>

\* the days the calendar offers, as local midnights
DateChoices == {NullDate, DateOf(Day(1))}

\* the texts the search bar propagates
Queries == {<< >>, <<"a", "b">>, <<"c">>}

\* <option value> of the items-per-page select, TransactionList.tsx:302-304
ItemsPerPageOptions == {10, 15, 20}

SortFields == {"timestamp", "amount", "status"}

-----------------------------------------------------------------------------
(* State after TransactionsPage has mounted and its effect has started the *)
(* first load                                                              *)

InitialItemsPerPage == 15

ListInit ==
    /\ sortField = "timestamp"
    /\ sortDirection = "desc"
    /\ currentPage = 1
    /\ itemsPerPage = InitialItemsPerPage

FiltersInit ==
    /\ selectedStatuses = << >>
    /\ dateFrom = NullDate
    /\ dateTo = NullDate
    /\ searchQuery = << >>

\* no derived value has been applied
Idle == [kind |-> "idle"]

\* SearchBar after its mount: useState('') (part_001:15), useDebounce
\* returning its initial value, the effect having propagated ''
BarInit ==
    /\ searchInput = << >>
    /\ debouncedSearch = << >>
    /\ timers = {}
    /\ events = << >>

\* the creation form before its first use: the dialog closed
\* (page.tsx:21), useForm holding its defaultValues
\* (CreateTransactionForm.tsx:82-87), no request sent
FormInit ==
    /\ createFormOpen = FALSE
    /\ isSubmitting = FALSE
    /\ formValues = "defaults"
    /\ creating = FALSE
    /\ created = 0

\* the page after its mount, whatever localStorage holds
Mount ==
    /\ transactions = << >>
    /\ loading = TRUE
    /\ error = FALSE
    /\ inflight = 1
    /\ FiltersInit
    /\ filteredTransactions = << >>
    /\ ListInit
    /\ probe = Idle
    /\ BarInit
    /\ now = 0
    /\ written = << >>
    /\ FormInit

Init ==
    /\ Mount
    /\ draft = "none"

\* TransactionList and SearchBar are rendered only while no error is held
Mounted == ~error
\* the error card with its Retry button, page.tsx: error && !loading
ErrorCardShown == error /\ ~loading
\* the filters, the table and the pagination controls replace the skeleton
ListShown == ~error /\ ~loading

FilteredCount == Len(filteredTransactions)
CurrentTotalPages == TotalPages(FilteredCount, itemsPerPage)

\* the render that follows a handler recomputes the memo, page.tsx:56-91
Render == filteredTransactions' = Filtered'

\* useEffect(() => setCurrentPage(1), [transactions.length, itemsPerPage]):
\* runs after that render, TransactionList.tsx:87-89
\* mutant: the effect is missing
ResetEffectMissing(handlerPage) == currentPage' = handlerPage

ResetEffect(handlerPage) ==
    currentPage' =
        IF \/ Len(filteredTransactions') # Len(filteredTransactions)
           \/ itemsPerPage' # itemsPerPage
        THEN 1
        ELSE handlerPage

\* TransactionList unmounts when an error is set; its next instance starts
\* from the useState initial values
ListUnmount ==
    /\ sortField' = "timestamp"
    /\ sortDirection' = "desc"
    /\ currentPage' = 1
    /\ itemsPerPage' = InitialItemsPerPage

-----------------------------------------------------------------------------
(* loadTransactions, page.tsx:31-49, split at its await *)

\* up to the await; when an error was held SearchBar mounts again and its
\* effect propagates its initial text '' (part_001:15-21)
LoadStart ==
    /\ UNCHANGED <<barVars, now, written>>
    /\ inflight < MaxInflight
    /\ loading' = TRUE
    /\ error' = FALSE
    /\ inflight' = inflight + 1
    /\ searchQuery' = IF error THEN << >> ELSE searchQuery
    /\ UNCHANGED <<transactions, selectedStatuses, dateFrom, dateTo,
                   sortField, sortDirection, itemsPerPage, probe>>
    /\ Render
    /\ ResetEffect(currentPage)

\* the fetch resolves
LoadOk ==
    /\ UNCHANGED <<barVars, formVars, now, written>>
    /\ inflight > 0
    /\ \E r \in Responses : transactions' = Stored(r)
    /\ loading' = FALSE
    /\ inflight' = inflight - 1
    /\ UNCHANGED <<error, filterVars, sortField, sortDirection, itemsPerPage,
                   probe>>
    /\ Render
    /\ ResetEffect(currentPage)

\* mutant: a failed fetch empties the raw collection
LoadFailDroppingRows ==
    /\ UNCHANGED <<barVars, formVars, now, written>>
    /\ inflight > 0
    /\ error' = TRUE
    /\ loading' = FALSE
    /\ inflight' = inflight - 1
    /\ ListUnmount
    /\ transactions' = << >>
    /\ UNCHANGED <<filterVars, probe>>
    /\ Render

\* the fetch rejects
LoadFail ==
    /\ UNCHANGED <<barVars, formVars, now, written>>
    /\ inflight > 0
    /\ error' = TRUE
    /\ loading' = FALSE
    /\ inflight' = inflight - 1
    /\ ListUnmount
    /\ UNCHANGED <<transactions, filterVars, filteredTransactions, probe>>

\* page.tsx:102-104, the Retry button of the error card
handleRetry ==
    /\ error /\ ~loading
    /\ LoadStart
    /\ UNCHANGED formVars

\* page.tsx:98-100, called by the creation form after a successful create
handleCreateSuccess ==
    /\ LoadStart
    /\ UNCHANGED formVars

-----------------------------------------------------------------------------
(* Filter intents: InlineFilters (part_000) and SearchBar (part_001)       *)
(* calling the setters of TransactionsPage                                 *)

\* Array.prototype.filter(s => s !== status)
Without(arr, status) == SelectSeq(arr, LAMBDA s : s # status)

\* part_000:46-52
ToggledStatuses(arr, status) ==
    IF ArrIncludes(arr, status)
    THEN Without(arr, status)
    ELSE Append(arr, status)

\* part_000:43
AllSelected(arr) == Len(arr) = Len(ALL_STATUSES)

\* part_000:54-60
SelectAllStatuses(arr) == IF AllSelected(arr) THEN << >> ELSE ALL_STATUSES

handleStatusToggle(status) ==
    /\ UNCHANGED <<barVars, formVars, now, written>>
    /\ ListShown
    /\ selectedStatuses' = ToggledStatuses(selectedStatuses, status)
    /\ UNCHANGED <<pageVars, dateFrom, dateTo, searchQuery, sortField,
                   sortDirection, itemsPerPage, probe>>
    /\ Render
    /\ ResetEffect(currentPage)

handleSelectAll ==
    /\ UNCHANGED <<barVars, formVars, now, written>>
    /\ ListShown
    /\ selectedStatuses' = SelectAllStatuses(selectedStatuses)
    /\ UNCHANGED <<pageVars, dateFrom, dateTo, searchQuery, sortField,
                   sortDirection, itemsPerPage, probe>>
    /\ Render
    /\ ResetEffect(currentPage)

\* part_000:135, onSelect of the From calendar
onDateFromChange(date) ==
    /\ UNCHANGED <<barVars, formVars, now, written>>
    /\ ListShown
    /\ date # dateFrom
    /\ dateFrom' = date
    /\ UNCHANGED <<pageVars, selectedStatuses, dateTo, searchQuery, sortField,
                   sortDirection, itemsPerPage, probe>>
    /\ Render
    /\ ResetEffect(currentPage)

\* part_000:152, onSelect of the To calendar
onDateToChange(date) ==
    /\ UNCHANGED <<barVars, formVars, now, written>>
    /\ ListShown
    /\ date # dateTo
    /\ dateTo' = date
    /\ UNCHANGED <<pageVars, selectedStatuses, dateFrom, searchQuery,
                   sortField, sortDirection, itemsPerPage, probe>>
    /\ Render
    /\ ResetEffect(currentPage)

\* setSearchQuery(q) of the page (page.tsx:27, 158) and the render after it
SetSearchQuery(q) ==
    /\ searchQuery' = q
    /\ UNCHANGED <<pageVars, selectedStatuses, dateFrom, dateTo, sortField,
                   sortDirection, itemsPerPage, probe>>
    /\ Render
    /\ ResetEffect(currentPage)

\* a text other than the one in force propagated by SearchBar, its own
\* state left aside (SpecSearch follows it)
onSearchChange(q) ==
    /\ UNCHANGED <<barVars, formVars, now, written>>
    /\ Mounted
    /\ q # searchQuery
    /\ SetSearchQuery(q)

\* mutant: the search text survives Clear
handleClearFiltersKeepingSearch ==
    /\ UNCHANGED <<barVars, formVars, now, written>>
    /\ ListShown
    /\ selectedStatuses' = << >>
    /\ dateFrom' = NullDate
    /\ dateTo' = NullDate
    /\ UNCHANGED <<pageVars, searchQuery, sortField, sortDirection,
                   itemsPerPage, probe>>
    /\ Render
    /\ ResetEffect(currentPage)

\* page.tsx:106-111; the button stays in the document (and reachable from
\* the keyboard) when no filter is active
handleClearFilters ==
    /\ UNCHANGED <<barVars, formVars, now, written>>
    /\ ListShown
    /\ selectedStatuses' = << >>
    /\ dateFrom' = NullDate
    /\ dateTo' = NullDate
    /\ searchQuery' = << >>
    /\ UNCHANGED <<pageVars, sortField, sortDirection, itemsPerPage, probe>>
    /\ Render
    /\ ResetEffect(currentPage)

-----------------------------------------------------------------------------
(* List intents, TransactionList.tsx *)

\* TransactionList.tsx:91-95; the select is rendered when totalPages > 1
handleItemsPerPageChange(value) ==
    /\ UNCHANGED <<barVars, formVars, now, written>>
    /\ ListShown
    /\ CurrentTotalPages > 1
    /\ value # itemsPerPage
    /\ itemsPerPage' = value
    /\ UNCHANGED <<pageVars, filterVars, sortField, sortDirection, probe>>
    /\ Render
    /\ ResetEffect(1)

\* mutant: a new field keeps the direction in force
SortAfterClickKeepsDirection(field, curField, curDirection) ==
    IF curField = field
    THEN [field |-> curField,
          direction |-> IF curDirection = "asc" THEN "desc" ELSE "asc"]
    ELSE [field |-> field, direction |-> curDirection]

\* the sort state handleSort(field) sets, TransactionList.tsx:98-103
SortAfterClick(field, curField, curDirection) ==
    IF curField = field
    THEN [field |-> curField,
          direction |-> IF curDirection = "asc" THEN "desc" ELSE "asc"]
    ELSE [field |-> field, direction |-> "desc"]

\* mutant: the sort runs on the raw array itself, the copies of
\* page.tsx:57 and TransactionList.tsx:49 missing
handleSortInPlace(field) ==
    /\ UNCHANGED <<barVars, formVars, now, written>>
    /\ ListShown
    /\ FilteredCount > 0
    /\ sortField' = SortAfterClick(field, sortField, sortDirection).field
    /\ sortDirection' = SortAfterClick(field, sortField, sortDirection).direction
    /\ transactions' = StableSort(transactions, sortField', sortDirection')
    /\ UNCHANGED <<loading, error, inflight, filterVars, itemsPerPage, probe>>
    /\ Render
    /\ ResetEffect(1)

\* TransactionList.tsx:97-105; the headers are rendered with the table
handleSort(field) ==
    /\ UNCHANGED <<barVars, formVars, now, written>>
    /\ ListShown
    /\ FilteredCount > 0
    /\ sortField' = SortAfterClick(field, sortField, sortDirection).field
    /\ sortDirection' = SortAfterClick(field, sortField, sortDirection).direction
    /\ UNCHANGED <<pageVars, filterVars, itemsPerPage, probe>>
    /\ Render
    /\ ResetEffect(1)

\* TransactionList.tsx:308-315
Previous ==
    /\ UNCHANGED <<barVars, formVars, now, written>>
    /\ ListShown
    /\ CurrentTotalPages > 1
    /\ currentPage # 1
    /\ UNCHANGED <<pageVars, filterVars, sortField, sortDirection,
                   itemsPerPage, probe>>
    /\ Render
    /\ ResetEffect(Max(1, currentPage - 1))

\* TransactionList.tsx:340-347
NextPage ==
    /\ UNCHANGED <<barVars, formVars, now, written>>
    /\ ListShown
    /\ CurrentTotalPages > 1
    /\ currentPage # CurrentTotalPages
    /\ UNCHANGED <<pageVars, filterVars, sortField, sortDirection,
                   itemsPerPage, probe>>
    /\ Render
    /\ ResetEffect(Min(CurrentTotalPages, currentPage + 1))

\* TransactionList.tsx:317-336, the i-th of the rendered page buttons
PageButton(i) ==
    /\ UNCHANGED <<barVars, formVars, now, written>>
    /\ ListShown
    /\ CurrentTotalPages > 1
    /\ i < Min(5, CurrentTotalPages)
    /\ UNCHANGED <<pageVars, filterVars, sortField, sortDirection,
                   itemsPerPage, probe>>
    /\ Render
    /\ ResetEffect(PageNum(i, CurrentTotalPages, currentPage))

-----------------------------------------------------------------------------
Next ==
    \/ LoadOk
    \/ LoadFail
    \/ handleRetry
    \/ handleCreateSuccess
    \/ \E status \in Statuses : handleStatusToggle(status)
    \/ handleSelectAll
    \/ \E date \in DateChoices : onDateFromChange(date)
    \/ \E date \in DateChoices : onDateToChange(date)
    \/ \E q \in Queries : onSearchChange(q)
    \/ handleClearFilters
    \/ \E value \in ItemsPerPageOptions : handleItemsPerPageChange(value)
    \/ \E field \in SortFields : handleSort(field)
    \/ Previous
    \/ NextPage
    \/ \E i \in 0..4 : PageButton(i)

Spec == Init /\ [][Next]_vars

-----------------------------------------------------------------------------
(* The derived values applied to drawn inputs.  Each of the following      *)
(* specifications starts from a page that shows its list (no fetch in      *)
(* flight, no error) with the drawn raw collection and view state, and     *)
(* records in probe what the render computes.                              *)

ShownAt(t, raw, statuses, from, to, q, field, direction, page, perPage) ==
    /\ now = t
    /\ BarInit
    /\ written = << >>
    /\ FormInit
    /\ draft = "none"
    /\ transactions = raw
    /\ loading = FALSE
    /\ error = FALSE
    /\ inflight = 0
    /\ selectedStatuses = statuses
    /\ dateFrom = from
    /\ dateTo = to
    /\ searchQuery = q
    /\ filteredTransactions = FilteredTransactions(raw, statuses, from, to, q)
    /\ sortField = field
    /\ sortDirection = direction
    /\ currentPage = page
    /\ itemsPerPage = perPage
    /\ probe = Idle

Shown(raw, statuses, from, to, q, field, direction, page, perPage) ==
    ShownAt(0, raw, statuses, from, to, q, field, direction, page, perPage)

\* the ways to pick at most n rows, each one of size kinds
Picks(size, n) == UNION {[1..m -> 1..size] : m \in 0..n}

SortDirections == {"asc", "desc"}

(* --- the comparator and the sort ------------------------------------- *)

\* rows to sort: two instants, no time at all, an unparseable time; three
\* magnitudes and an unparseable amount; the three statuses
SortRow(k, i) ==
    CASE k = 1 -> Tx(i, PENDING, Iso(Day(1)), Absent,
                     <<"a">>, <<"c">>, <<"d">>, <<"1", ".", "5">>)
      [] k = 2 -> Tx(i, CONFIRMED, Absent, Iso(Day(2)),
                     <<"a">>, <<"c">>, <<"d">>, <<"0", ".", "2">>)
      [] k = 3 -> Tx(i, FAILED, Absent, Absent,
                     <<"a">>, <<"c">>, <<"d">>, <<"1", "0">>)
      [] OTHER -> Tx(i, PENDING, BadDate, Iso(Day(1)),
                     <<"a">>, <<"c">>, <<"d">>, <<"a", "b", "c">>)

\* the picked rows, their positions as ids
SortInput(pick) == [i \in 1..Len(pick) |-> SortRow(pick[i], i)]

InitSort ==
    \E pick \in Picks(4, MaxSortLen), field \in SortFields,
       direction \in SortDirections :
        Shown(SortInput(pick), << >>, NullDate, NullDate, << >>, field, direction, 1,
              InitialItemsPerPage)

\* useMemo of sortedTransactions, TransactionList.tsx:48-78
SortRows ==
    /\ UNCHANGED <<barVars, formVars, now, written>>
    /\ probe.kind = "idle"
    /\ \E sorted \in SortOutcomes(filteredTransactions, sortField,
                                  sortDirection) :
          probe' = [kind |-> "sorted", rows |-> sorted]
    /\ UNCHANGED <<pageVars, filterVars, filteredTransactions, listVars>>

\* a click on the header of field (handleSort, TransactionList.tsx:97-105)
\* and the sort of the render that follows; probe keeps the order shown
\* before the click and the clicks made so far
ClickHeader(field) ==
    /\ UNCHANGED <<barVars, formVars, now, written>>
    /\ probe.kind \in {"sorted", "resorted"}
    /\ Len(filteredTransactions) > 0
    /\ Len(IF probe.kind = "sorted" THEN << >> ELSE probe.clicks) < MaxClicks
    /\ sortField' = SortAfterClick(field, sortField, sortDirection).field
    /\ sortDirection' = SortAfterClick(field, sortField, sortDirection).direction
    /\ currentPage' = 1
    /\ \E sorted \in SortOutcomes(filteredTransactions, sortField',
                                  sortDirection') :
          probe' = [kind |-> "resorted",
                    rows |-> sorted,
                    before |-> probe.rows,
                    clicks |-> Append(IF probe.kind = "sorted" THEN << >>
                                      ELSE probe.clicks,
                                      [field |-> field,
                                       fieldBefore |-> sortField,
                                       directionBefore |-> sortDirection])]
    /\ UNCHANGED <<pageVars, filterVars, filteredTransactions, itemsPerPage>>

\* the first sort and one click on a header
NextSort ==
    \/ SortRows
    \/ \E field \in SortFields : probe.kind = "sorted" /\ ClickHeader(field)

SpecSort == InitSort /\ [][NextSort]_vars

(* --- the filter ------------------------------------------------------ *)

\* rows to filter: at the last millisecond of day 1; at the first of day 2;
\* dated by createdAt (timestamp '') at the first millisecond of day 1;
\* without any time; with an unparseable timestamp beside a good createdAt;
\* at the last millisecond before day 1.  The text "ab" occurs, in some
\* letter case, in the hash of the first, in the fromAddress of the second
\* and in the toAddress of the third.
FilterRow(k, i) ==
    CASE k = 1 -> Tx(i, PENDING, Iso(Day(2) - 1), Absent,
                     <<"a", "B">>, <<"c">>, <<"d">>, <<"1">>)
      [] k = 2 -> Tx(i, CONFIRMED, Iso(Day(2)), Absent,
                     <<"c", "c">>, <<"A", "b">>, <<"d">>, <<"1">>)
      [] k = 3 -> Tx(i, FAILED, EmptyStr, Iso(Day(1)),
                     <<"c", "c">>, <<"c">>, <<"c", "A", "B">>, <<"1">>)
      [] k = 4 -> Tx(i, PENDING, Absent, Absent,
                     <<"b", "a">>, <<"c">>, <<"d">>, <<"1">>)
      [] k = 5 -> Tx(i, CONFIRMED, BadDate, Iso(Day(1)),
                     <<"D", "c">>, <<"c">>, <<"c">>, <<"1">>)
      [] OTHER -> Tx(i, FAILED, Iso(Day(1) - 1), Iso(Day(1)),
                     <<"c", "c">>, <<"c">>, <<"c">>, <<"1">>)

\* the arrays handleStatusToggle and handleSelectAll can build
StatusSelections ==
    {sel \in UNION {[1..m -> Statuses] : m \in 0..Len(ALL_STATUSES)} :
        \A i \in 1..Len(sel), j \in 1..Len(sel) : sel[i] = sel[j] => i = j}

FilterQueries == {<< >>, <<"a", "b">>, <<"A", "B">>, <<"d">>}

\* the picked rows, their positions as ids
FilterInput(pick) == [i \in 1..Len(pick) |-> FilterRow(pick[i], i)]

InitFilter ==
    \E pick \in Picks(6, MaxLen), statuses \in StatusSelections,
       from \in DateChoices, to \in DateChoices, q \in FilterQueries :
        Shown(FilterInput(pick), statuses, from, to, q, "timestamp", "desc", 1,
              InitialItemsPerPage)

\* useMemo of filteredTransactions, page.tsx:56-91
ApplyFilter ==
    /\ UNCHANGED <<barVars, formVars, now, written>>
    /\ probe.kind = "idle"
    /\ probe' = [kind |-> "filtered",
                 rows |-> FilteredTransactions(transactions, selectedStatuses,
                                               dateFrom, dateTo, searchQuery)]
    /\ UNCHANGED <<pageVars, filterVars, filteredTransactions, listVars>>

NextFilter == ApplyFilter

SpecFilter == InitFilter /\ [][NextFilter]_vars

(* --- the pagination window ------------------------------------------- *)

\* rows that the initial sort leaves in place: all at the same instant
PageRow(i) ==
    Tx(i, CONFIRMED, Iso(Day(1)), Absent, <<"a">>, <<"c">>, <<"d">>, <<"1">>)

InitPage ==
    \E n \in 0..MaxRows, perPage \in ItemsPerPageOptions :
        Shown([i \in 1..n |-> PageRow(i)], << >>, NullDate, NullDate, << >>,
              "timestamp", "desc", 1, perPage)

\* the render of page 1, TransactionList.tsx:48-84
ShowFirstPage ==
    /\ UNCHANGED <<barVars, formVars, now, written>>
    /\ probe.kind = "idle"
    /\ \E sorted \in SortOutcomes(filteredTransactions, sortField,
                                  sortDirection) :
          LET slice == PaginatedTransactions(sorted, currentPage, itemsPerPage)
          IN  probe' = [kind |-> "page",
                        sorted |-> sorted,
                        totalPages |-> TotalPages(Len(sorted), itemsPerPage),
                        slice |-> slice,
                        shown |-> slice]
    /\ UNCHANGED <<pageVars, filterVars, filteredTransactions, listVars>>

\* Next (TransactionList.tsx:340-347) and the render of the page it opens;
\* shown collects the slices of the pages opened so far
ShowNextPage ==
    /\ UNCHANGED <<barVars, formVars, now, written>>
    /\ probe.kind = "page"
    /\ probe.totalPages > 1
    /\ currentPage # probe.totalPages
    /\ currentPage' = Min(probe.totalPages, currentPage + 1)
    /\ LET slice == PaginatedTransactions(probe.sorted, currentPage',
                                          itemsPerPage)
       IN  probe' = [probe EXCEPT !.slice = slice,
                                  !.shown = probe.shown \o slice]
    /\ UNCHANGED <<pageVars, filterVars, filteredTransactions, sortField,
                   sortDirection, itemsPerPage>>

NextPaging == ShowFirstPage \/ ShowNextPage

SpecPage == InitPage /\ [][NextPaging]_vars

(* --- the column headers ------------------------------------------------ *)

\* rows at one instant, shown under any sort state
InitHeaders ==
    \E n \in 1..MaxLen, field \in SortFields, direction \in SortDirections :
        Shown([i \in 1..n |-> PageRow(i)], << >>, NullDate, NullDate, << >>,
              field, direction, 1, InitialItemsPerPage)

\* the first sort and the clicks on the headers
NextHeaders ==
    \/ SortRows
    \/ \E field \in SortFields : ClickHeader(field)

SpecHeaders == InitHeaders /\ [][NextHeaders]_vars

(* --- the pagination controls ----------------------------------------- *)

InitButtons ==
    \E n \in 0..MaxButtonRows, perPage \in ItemsPerPageOptions :
        Shown([i \in 1..n |-> PageRow(i)], << >>, NullDate, NullDate, << >>,
              "timestamp", "desc", 1, perPage)

\* the controls of TransactionList.tsx:290-349
NextButtons ==
    \/ \E value \in ItemsPerPageOptions : handleItemsPerPageChange(value)
    \/ Previous
    \/ NextPage
    \/ \E i \in 0..4 : PageButton(i)

SpecButtons == InitButtons /\ [][NextButtons]_vars

(* --- the search bar ---------------------------------------------------- *)

\* useDebounce(searchQuery, 300), part_001:16
DebounceDelay == 300
\* the clock advances by a third of the delay
TickMs == DebounceDelay \div 3

\* the texts typed into the input
Texts == {<< >>, <<"a">>, <<"a", "b">>, <<"a", "b", "c">>}

\* useDebounce: a change of value clears the pending timeout and sets one
\* that delivers value after the delay
DebounceRestart(pending, value, t) ==
    {[at |-> t + DebounceDelay, value |-> value]}

\* a timeout may run once its delay has elapsed
Due(tm, t) == t >= tm.at

Event(kind, value, by) ==
    [kind |-> kind, at |-> now, value |-> value, by |-> by]

IsInput(e) == e.kind \in {"key", "clear"}
IsPropagation(e) == e.kind = "propagate"
InputCount == Len(SelectSeq(events, IsInput))

InitSearch ==
    Shown(Dataset(LoadStep), << >>, NullDate, NullDate, << >>, "timestamp",
          "desc", 1, InitialItemsPerPage)

PageUntouched ==
    UNCHANGED <<pageVars, filterVars, filteredTransactions, listVars, probe>>

\* mutant: the typed text is handed to onSearchChange at once
onChangePropagating(text) ==
    /\ Mounted
    /\ text # searchInput
    /\ InputCount < MaxInputs
    /\ searchInput' = text
    /\ timers' = DebounceRestart(timers, text, now)
    /\ events' = events \o <<Event("key", text, "user"),
                              Event("propagate", text, "effect")>>
    /\ SetSearchQuery(text)
    /\ UNCHANGED <<debouncedSearch, now, written, formVars>>

\* onChange of the input, part_001:33-35: setSearchQuery(e.target.value)
onChange(text) ==
    /\ Mounted
    /\ text # searchInput
    /\ InputCount < MaxInputs
    /\ searchInput' = text
    /\ timers' = DebounceRestart(timers, text, now)
    /\ events' = Append(events, Event("key", text, "user"))
    /\ PageUntouched
    /\ UNCHANGED <<debouncedSearch, now, written, formVars>>

\* a timeout of useDebounce runs: debouncedSearch takes its value and, when
\* that is a change, the effect of part_001:19-21 calls onSearchChange
TimeoutFires ==
    /\ Mounted
    /\ \E tm \in timers :
          /\ Due(tm, now)
          /\ timers' = timers \ {tm}
          /\ debouncedSearch' = tm.value
          /\ IF tm.value # debouncedSearch
             THEN /\ events' = Append(events,
                                      Event("propagate", tm.value, "effect"))
                  /\ SetSearchQuery(tm.value)
             ELSE /\ UNCHANGED events
                  /\ PageUntouched
    /\ UNCHANGED <<searchInput, now, written, formVars>>

\* mutant: the clear button empties the input only
handleClearLocalOnly ==
    /\ Mounted
    /\ searchInput # << >>
    /\ InputCount < MaxInputs
    /\ searchInput' = << >>
    /\ timers' = DebounceRestart(timers, << >>, now)
    /\ events' = Append(events, Event("clear", << >>, "user"))
    /\ PageUntouched
    /\ UNCHANGED <<debouncedSearch, now, written, formVars>>

\* part_001:23-26; the button is rendered while the input holds a text
\* (part_001:39)
handleClear ==
    /\ Mounted
    /\ searchInput # << >>
    /\ InputCount < MaxInputs
    /\ searchInput' = << >>
    /\ timers' = DebounceRestart(timers, << >>, now)
    /\ events' = events \o <<Event("clear", << >>, "user"),
                              Event("propagate", << >>, "handleClear")>>
    /\ SetSearchQuery(<< >>)
    /\ UNCHANGED <<debouncedSearch, now, written, formVars>>

\* time passes
Tick ==
    /\ now + TickMs <= MaxTicks * TickMs
    /\ now' = now + TickMs
    /\ PageUntouched
    /\ UNCHANGED <<barVars, written, formVars>>

NextSearch ==
    \/ \E text \in Texts : onChange(text)
    \/ TimeoutFires
    \/ handleClear
    \/ Tick

SpecSearch == InitSearch /\ [][NextSearch]_vars

\* the search bar next to the Clear button of InlineFilters, both rendered
\* by the page (page.tsx:154-174)
NextSearchAndClear ==
    \/ NextSearch
    \/ handleClearFilters

SpecSearchAndClear == InitSearch /\ [][NextSearchAndClear]_vars

(* --- the export -------------------------------------------------------- *)

ToUpperChar(c) ==
    CASE c = "p" -> "P"
      [] c = "c" -> "C"
      [] c = "f" -> "F"
      [] OTHER -> c

\* status.charAt(0).toUpperCase() + status.slice(1), export.ts:12
Capitalized(chars) == <<ToUpperChar(Head(chars))>> \o Tail(chars)

\* parseFloat(amount).toFixed(6), export.ts:11: the magnitude in
\* millionths, "NaN" for an unparseable amount
ToFixed6(amount) ==
    IF ParseFloat(amount).nan THEN [nan |-> TRUE, millionths |-> 0]
    ELSE [nan |-> FALSE, millionths |-> ParseFloat(amount).v * 100000]

\* tx.timestamp || tx.createdAt || 'N/A', export.ts:19
DateColumn(tx) ==
    IF Truthy(tx.timestamp) THEN tx.timestamp
    ELSE IF Truthy(tx.createdAt) THEN tx.createdAt
    ELSE [kind |-> "N/A", ms |-> 0]

\* the record of a transaction, export.ts:7-20 (the gas columns and the
\* formatted timestamp are left out)
ExportRecord(tx) ==
    [hash |-> tx.hash,
     fromAddress |-> tx.fromAddress,
     toAddress |-> tx.toAddress,
     amount |-> ToFixed6(tx.amount),
     status |-> Capitalized(StatusChars(tx.status)),
     date |-> DateColumn(tx)]

\* export.ts:6-42: one sheet, one record per transaction, written under
\* filename
exportTransactionsToXLSX(txs, filename) ==
    [name |-> filename,
     sheet |-> "Transactions",
     rows |-> [i \in 1..Len(txs) |-> ExportRecord(txs[i])]]

\* new Date().toISOString().split('T')[0], part_000:75: the UTC day of t
\* (days are counted from the first modelled day)
IsoDate(t) == t \div DayMs

\* `transactions-${timestamp}.xlsx`, part_000:76
ExportFilename(t) ==
    [prefix |-> "transactions-", date |-> IsoDate(t), suffix |-> ".xlsx"]

\* mutant: the guard of the empty collection is missing
WrittenByExportUnguarded(given, t) ==
    <<exportTransactionsToXLSX(given, ExportFilename(t))>>

\* the files handleExport writes, part_000:71-77
WrittenByExport(given, t) ==
    IF Len(given) = 0 THEN << >>
    ELSE <<exportTransactionsToXLSX(given, ExportFilename(t))>>

\* mutant: InlineFilters is given the visible page
ExportedCollectionPage(sorted, page, perPage) ==
    PaginatedTransactions(sorted, page, perPage)

\* transactions={sortedTransactions}, TransactionList.tsx:169
ExportedCollection(sorted, page, perPage) == sorted

ExportClicks == IF probe.kind = "export" THEN probe.clicks ELSE 0

\* a click on Export (part_000:168-179); probe keeps what the handler was
\* given and the view state of the click
handleExport ==
    /\ ListShown
    /\ ExportClicks < MaxExports
    /\ \E sorted \in SortOutcomes(filteredTransactions, sortField,
                                  sortDirection) :
          LET given == ExportedCollection(sorted, currentPage, itemsPerPage)
          IN  /\ written' = written \o WrittenByExport(given, now)
              /\ probe' = [kind |-> "export",
                           clicks |-> ExportClicks + 1,
                           given |-> given,
                           statuses |-> selectedStatuses,
                           query |-> searchQuery,
                           page |-> currentPage,
                           perPage |-> itemsPerPage,
                           writtenBefore |-> Len(written)]
    /\ UNCHANGED <<pageVars, filterVars, filteredTransactions, listVars,
                   barVars, formVars, now>>

\* rows with parseable times, on two days in turn
ExportRow(i) ==
    [Row(i) EXCEPT !.timestamp = Iso(Day(1 + (i % 2))), !.createdAt = Absent]

\* the instants of the export: the last millisecond of a day and the first
\* of the next
ExportTimes == {Day(1) - 1, Day(1)}

\* status selections in force at the first click
ExportSelections == {<< >>, <<CONFIRMED>>, <<PENDING, FAILED>>}

InitExport ==
    \E k \in 0..MaxBatches, statuses \in ExportSelections, t \in ExportTimes :
        ShownAt(t, [i \in 1..(k * LoadStep) |-> ExportRow(i)], statuses,
                NullDate, NullDate, << >>, "timestamp", "desc", 1,
                InitialItemsPerPage)

NextExport ==
    \/ handleExport
    \/ \E q \in Queries : onSearchChange(q)
    \/ \E value \in ItemsPerPageOptions : handleItemsPerPageChange(value)
    \/ Previous
    \/ NextPage

SpecExport == InitExport /\ [][NextExport]_vars

-----------------------------------------------------------------------------
(* The creation form, CreateTransactionForm.tsx, with the loads of the     *)
(* page.  formValues is "defaults" (the defaultValues of useForm, which    *)
(* the schema rejects: toAddress is required) or "edited" (values the      *)
(* schema accepts); draft is "none" or the values stored under             *)
(* STORAGE_KEY.                                                            *)

MaxCreates == 2

FormUntouchedPage ==
    UNCHANGED <<pageVars, filterVars, filteredTransactions, listVars, probe,
                barVars, now, written>>

\* the Create button, page.tsx:124, and the effect that loads the draft
\* when the dialog opens, CreateTransactionForm.tsx:120-135
OpenForm ==
    /\ ~createFormOpen
    /\ createFormOpen' = TRUE
    /\ formValues' = IF draft # "none" THEN draft ELSE formValues
    /\ UNCHANGED <<isSubmitting, draft, creating, created>>
    /\ FormUntouchedPage

\* the user fills the fields in; the watch subscription of the open dialog
\* stores them, CreateTransactionForm.tsx:138-149
EditForm ==
    /\ createFormOpen
    /\ formValues' = "edited"
    /\ draft' = "edited"
    /\ UNCHANGED <<createFormOpen, isSubmitting, creating, created>>
    /\ FormUntouchedPage

\* Cancel (CreateTransactionForm.tsx:186-188, disabled while submitting)
\* or the dialog dismissed (onOpenChange of Dialog, line 191)
CloseDialog ==
    /\ createFormOpen
    /\ createFormOpen' = FALSE
    /\ UNCHANGED <<isSubmitting, formValues, draft, creating, created>>
    /\ FormUntouchedPage

\* onSubmit up to its await, CreateTransactionForm.tsx:151-154; handleSubmit
\* calls it with values the schema accepts, the button is disabled while
\* isSubmitting
onSubmit ==
    /\ createFormOpen
    /\ ~isSubmitting
    /\ formValues = "edited"
    /\ created < MaxCreates
    /\ isSubmitting' = TRUE
    /\ creating' = TRUE
    /\ UNCHANGED <<createFormOpen, formValues, draft, created>>
    /\ FormUntouchedPage

\* what localStorage holds after removeItem(STORAGE_KEY) and reset()
\* (CreateTransactionForm.tsx:161-163): reset() publishes the default
\* values, and while the dialog is open the subscription of lines 140-146
\* is still attached (its cleanup runs after onOpenChange(false) has
\* rendered) and stores what is published to it
DraftAfterReset(open) == IF open THEN {"none", "defaults"} ELSE {"none"}

\* the create request resolves: CreateTransactionForm.tsx:161-173, then
\* finally; onSuccess is handleCreateSuccess of the page, which starts a
\* load
CreateOk ==
    /\ creating
    /\ created' = created + 1
    /\ draft' \in DraftAfterReset(createFormOpen)
    /\ formValues' = "defaults"
    /\ createFormOpen' = FALSE
    /\ isSubmitting' = FALSE
    /\ creating' = FALSE
    /\ LoadStart

\* the create request rejects: catch and finally,
\* CreateTransactionForm.tsx:174-183
CreateFail ==
    /\ creating
    /\ isSubmitting' = FALSE
    /\ creating' = FALSE
    /\ UNCHANGED <<createFormOpen, formValues, draft, created>>
    /\ FormUntouchedPage

\* localStorage may hold a draft of an earlier visit
InitCreate ==
    /\ Mount
    /\ draft \in {"none", "edited"}

NextCreate ==
    \/ OpenForm
    \/ EditForm
    \/ CloseDialog
    \/ onSubmit
    \/ CreateOk
    \/ CreateFail
    \/ LoadOk
    \/ LoadFail
    \/ handleRetry

SpecCreate == InitCreate /\ [][NextCreate]_vars

-----------------------------------------------------------------------------
(* Properties of the page state machine (Spec) *)

\* the memo always holds what the filter computes from the current state
MemoInSync == filteredTransactions = Filtered

\* C1: after any sequence of intents and of raw-collection replacements,
\* currentPage is within [1, max(1, ceil(filteredCount / itemsPerPage))],
\* and whenever the filtered collection is non-empty the visible slice (as
\* long as the slice of the filtered collection at the same indices) is
\* non-empty.
C1_PageInRange ==
    /\ currentPage >= 1
    /\ currentPage <= Max(1, Ceil(Len(Filtered), itemsPerPage))
    /\ Len(Filtered) > 0 =>
          Len(PaginatedTransactions(filteredTransactions, currentPage,
                                    itemsPerPage)) > 0

\* C1 witness: the last of several pages of a collection that the filters
\* have narrowed is shown
C1_Witness ==
    /\ ListShown
    /\ currentPage > 1
    /\ currentPage = Ceil(Len(Filtered), itemsPerPage)
    /\ Len(Filtered) < Len(transactions)

\* some filter criterion or itemsPerPage changes in the step
CriteriaChange ==
    \/ selectedStatuses' # selectedStatuses
    \/ dateFrom' # dateFrom
    \/ dateTo' # dateTo
    \/ searchQuery' # searchQuery
    \/ itemsPerPage' # itemsPerPage

\* C2: every mutation of a filter criterion and every change of
\* itemsPerPage leaves currentPage equal to 1, also when the number of
\* filtered transactions does not change.
C2_CriteriaChangeResetsPage == [][CriteriaChange => currentPage' = 1]_vars

\* a status is added to the selection and nothing else the filter reads
\* changes
StatusAdded ==
    /\ \E status \in Statuses :
          /\ ~ArrIncludes(selectedStatuses, status)
          /\ selectedStatuses' = Append(selectedStatuses, status)
    /\ UNCHANGED <<transactions, dateFrom, dateTo, searchQuery>>

\* the count with the status criterion left out
UnfilteredCount ==
    Len(SearchFilter(DateToFilter(DateFromFilter(transactions, dateFrom),
                                  dateTo),
                     searchQuery))

\* C7 as stated: adding a status to selectedStatuses never increases the
\* filtered count.
C7_AddingNeverIncreases ==
    [][StatusAdded =>
          Len(filteredTransactions') <= Len(filteredTransactions)]_vars

\* C7 amended: adding a status to an empty selectedStatuses never increases
\* the filtered count, adding one to a non-empty selectedStatuses never
\* decreases it, and removing all selections restores the unfiltered count.
C7_StatusMonotonicity ==
    [][/\ StatusAdded =>
            IF Len(selectedStatuses) = 0
            THEN Len(filteredTransactions') <= Len(filteredTransactions)
            ELSE Len(filteredTransactions') >= Len(filteredTransactions)
       /\ (selectedStatuses # << >> /\ selectedStatuses' = << >>) =>
            Len(filteredTransactions') = UnfilteredCount']_vars

\* C7 witness: a second status has been added and the selection still
\* excludes rows
C7_Witness ==
    /\ ListShown
    /\ Len(selectedStatuses) = 2
    /\ Len(filteredTransactions) > 0
    /\ Len(filteredTransactions) < UnfilteredCount

-----------------------------------------------------------------------------
(* Properties of the pagination window (SpecPage) *)

\* C3: the visible slice of page p is the elements at indices
\* [(p-1)*itemsPerPage, p*itemsPerPage) clipped to the sequence, and the
\* slices of pages 1..totalPages concatenated in order are the whole
\* sequence; 37 rows at 15 per page give 3 pages, page 3 holding indices
\* 30 to 36.
C3_SliceAndCoverage ==
    probe.kind = "page" =>
        LET n == Len(probe.sorted)
            first == (currentPage - 1) * itemsPerPage
            last == Min(currentPage * itemsPerPage, n)
        IN  /\ Len(probe.slice) = Max(0, last - first)
            /\ \A k \in 1..Len(probe.slice) :
                  probe.slice[k] = probe.sorted[first + k]
            /\ currentPage >= probe.totalPages => probe.shown = probe.sorted
            /\ (n = 37 /\ itemsPerPage = 15) =>
                  /\ probe.totalPages = 3
                  /\ currentPage = 3 =>
                        /\ Len(probe.slice) = 7
                        /\ \A k \in 1..7 : probe.slice[k].id = 30 + k

\* C3 witness: page 3 of 37 rows at 15 per page is shown
C3_Witness ==
    /\ probe.kind = "page"
    /\ Len(probe.sorted) = 37
    /\ itemsPerPage = 15
    /\ currentPage = 3
    /\ Len(probe.shown) = 37

\* C4 as stated: totalPages equals max(1, ceil(n / itemsPerPage)) for every
\* n >= 0, so 1 for an empty filtered collection.
C4_TotalPagesAtLeastOne ==
    probe.kind = "page" =>
        probe.totalPages
            = Max(1, Ceil(Len(filteredTransactions), itemsPerPage))

\* C4 amended: totalPages equals ceil(n / itemsPerPage) for every n >= 0
\* (the least k with k * itemsPerPage >= n), which is
\* max(1, ceil(n / itemsPerPage)) whenever n >= 1; an empty filtered
\* collection yields totalPages = 0 with an empty slice.
C4_TotalPagesIsCeil ==
    probe.kind = "page" =>
        LET n == Len(filteredTransactions)
            k == probe.totalPages
        IN  /\ k >= 0
            /\ k * itemsPerPage >= n
            /\ k > 0 => (k - 1) * itemsPerPage < n
            /\ n >= 1 => k = Max(1, Ceil(n, itemsPerPage))
            /\ n = 0 => (k = 0 /\ probe.slice = << >>)

\* C4 witness: an empty collection has been paginated
C4_Witness ==
    /\ probe.kind = "page"
    /\ Len(filteredTransactions) = 0
    /\ probe.totalPages = 0

\* C16: for every totalPages >= 1 and every currentPage in [1, totalPages]
\* the page-number window is min(5, totalPages) consecutive page numbers
\* within [1, totalPages] that contains currentPage; it is
\* currentPage-2 .. currentPage+2 when that range fits, otherwise it starts
\* at 1 (near the start) or ends at totalPages (near the end).
C16_PageWindow ==
    CurrentTotalPages >= 1 =>
        LET total == CurrentTotalPages
            window == PageNumbers(total, currentPage)
            n == Len(window)
        IN  /\ currentPage \in 1..total
            /\ n = Min(5, total)
            /\ \A i \in 1..n : window[i] \in 1..total
            /\ \A i \in 1..(n - 1) : window[i + 1] = window[i] + 1
            /\ \E i \in 1..n : window[i] = currentPage
            /\ IF currentPage - 2 >= 1 /\ currentPage + 2 <= total
               THEN window[1] = currentPage - 2 /\ window[n] = currentPage + 2
               ELSE IF currentPage - 2 < 1
               THEN window[1] = 1 /\ window[n] = Min(5, total)
               ELSE window[1] = Max(1, total - 4) /\ window[n] = total

\* C16 witness: on page 4 of 7 the window is 2..6, neither 1..5 nor 3..7
C16_Witness ==
    /\ CurrentTotalPages = 7
    /\ currentPage = 4
    /\ PageNumbers(CurrentTotalPages, currentPage) = <<2, 3, 4, 5, 6>>

-----------------------------------------------------------------------------
(* Properties of the comparator (SpecSort) *)

Unparseable(tx) == TxDate(tx).nan
ParseablePositive(tx) == ~TxDate(tx).nan /\ TxDate(tx).v > 0

\* C10: sorted by timestamp, a row whose effective time is absent or
\* unparseable comes before every row with a parseable positive time in
\* ascending direction and after all of them in descending direction.
C10_UnparseableAsEpochZero ==
    (probe.kind = "sorted" /\ sortField = "timestamp") =>
        \A i \in 1..Len(probe.rows), j \in 1..Len(probe.rows) :
            (Unparseable(probe.rows[i]) /\ ParseablePositive(probe.rows[j]))
                => IF sortDirection = "asc" THEN i < j ELSE i > j

\* the comparator of the sort state in force, on two rows
Cmp(a, b) == CompareFn(a, b, sortField, sortDirection)

\* C11: for every sortField and sortDirection the comparator is a total
\* order on the rows' keys, unparseable ones included (antisymmetric, and
\* transitive in its "not after" relation), and the sorted output is a
\* permutation of the filtered input in which every adjacent pair is in
\* the order of the direction.
C11_TotalOrderAndSorted ==
    probe.kind = "sorted" =>
        LET input == filteredTransactions
            out == probe.rows
            idx == 1..Len(input)
        IN  /\ \A i \in idx, j \in idx :
                   Cmp(input[i], input[j]) = 0 - Cmp(input[j], input[i])
            /\ \A i \in idx, j \in idx, k \in idx :
                   (Cmp(input[i], input[j]) <= 0 /\ Cmp(input[j], input[k]) <= 0)
                       => Cmp(input[i], input[k]) <= 0
            /\ out \in Rearrangements(input)
            /\ \A i \in 1..(Len(out) - 1) : Cmp(out[i], out[i + 1]) <= 0

Reverse(seq) == [i \in 1..Len(seq) |-> seq[Len(seq) + 1 - i]]

\* no two rows have the same key (two unparseable keys count as the same)
DistinctKeys(rows, field) ==
    \A i \in 1..Len(rows), j \in 1..Len(rows) :
        i # j => SortKey(rows[i], field) # SortKey(rows[j], field)

LastClick == probe.clicks[Len(probe.clicks)]

\* C12: for a fixed filtered collection whose sort keys are pairwise
\* distinct, the order shown after the direction of the sort field has been
\* reversed is exactly the reverse of the order shown before, for each of
\* the sort fields.
C12_DescReversesAsc ==
    (/\ probe.kind = "resorted"
     /\ LastClick.field = LastClick.fieldBefore
     /\ DistinctKeys(filteredTransactions, sortField))
        => probe.rows = Reverse(probe.before)

\* the magnitude of an amount, an unparseable amount counting as 0
AmountOrZero(tx) ==
    IF ParseFloat(tx.amount).nan THEN 0 ELSE ParseFloat(tx.amount).v

\* C13: sorted by amount, the rows are in the order of the magnitudes parsed
\* from their amount strings, an unparseable amount being compared as 0.
C13_AmountByMagnitude ==
    (probe.kind = "sorted" /\ sortField = "amount") =>
        \A i \in 1..Len(probe.rows), j \in 1..Len(probe.rows) :
            i < j =>
                IF sortDirection = "asc"
                THEN AmountOrZero(probe.rows[i]) <= AmountOrZero(probe.rows[j])
                ELSE AmountOrZero(probe.rows[i]) >= AmountOrZero(probe.rows[j])

\* C14: sorted by status in ascending direction, every confirmed row comes
\* before every failed row and every failed row before every pending row
\* (the lexical order of the literals, not a severity rank).
C14_StatusLexical ==
    (probe.kind = "sorted" /\ sortField = "status" /\ sortDirection = "asc") =>
        \A i \in 1..Len(probe.rows), j \in 1..Len(probe.rows) :
            (\/ /\ probe.rows[i].status = CONFIRMED
                /\ probe.rows[j].status \in {FAILED, PENDING}
             \/ /\ probe.rows[i].status = FAILED
                /\ probe.rows[j].status = PENDING)
                => i < j

\* C14 witness: pending, failed, confirmed rows come out as confirmed,
\* failed, pending
C14_Witness ==
    /\ probe.kind = "sorted"
    /\ sortField = "status"
    /\ sortDirection = "asc"
    /\ [i \in 1..Len(filteredTransactions) |-> filteredTransactions[i].status]
           = <<PENDING, FAILED, CONFIRMED>>
    /\ [i \in 1..Len(probe.rows) |-> probe.rows[i].status]
           = <<CONFIRMED, FAILED, PENDING>>

-----------------------------------------------------------------------------
(* Properties of the search bar (SpecSearch) *)

Inputs == SelectSeq(events, IsInput)
Propagations == SelectSeq(events, IsPropagation)

\* position of the last keystroke or clear before position p, 0 if none
LastInputBefore(p) ==
    LET before == {i \in 1..(p - 1) : IsInput(events[i])}
    IN  IF before = {} THEN 0
        ELSE CHOOSE i \in before : \A j \in before : j <= i

\* the text handed to onSearchChange last
PropagatedQuery ==
    IF Propagations = << >> THEN << >>
    ELSE Propagations[Len(Propagations)].value

Key(text, t) == [kind |-> "key", at |-> t, value |-> text, by |-> "user"]

\* keystrokes "a", "ab", "abc" at 0, 100 and 200 ms and nothing else
TypedAbc ==
    Inputs = <<Key(<<"a">>, 0), Key(<<"a", "b">>, 100),
               Key(<<"a", "b", "c">>, 200)>>

\* C17: a typed value reaches searchQuery only once 300 ms have elapsed
\* without a further keystroke, a superseded value is never propagated, at
\* most one timer is pending, and after keystrokes "a", "ab", "abc" at 0,
\* 100, 200 ms and no further input there is exactly one propagation, of
\* "abc", at or after 500 ms.
C17_Debounce ==
    /\ Cardinality(timers) <= 1
    /\ searchQuery = PropagatedQuery
    /\ \A p \in 1..Len(events) :
           (IsPropagation(events[p]) /\ events[p].by = "effect") =>
               LET k == LastInputBefore(p)
               IN  /\ k > 0
                   /\ events[k].value = events[p].value
                   /\ events[p].at >= events[k].at + 300
    /\ TypedAbc =>
           /\ Len(Propagations) <= 1
           /\ \A i \in 1..Len(Propagations) :
                  /\ Propagations[i].value = <<"a", "b", "c">>
                  /\ Propagations[i].at >= 500
           /\ timers = {} => Len(Propagations) = 1

\* C17 witness: "abc" typed in three keystrokes has been propagated, once,
\* at 500 ms
C17_Witness ==
    /\ TypedAbc
    /\ Len(Propagations) = 1
    /\ Propagations[1].value = <<"a", "b", "c">>
    /\ Propagations[1].at = 500
    /\ searchQuery = <<"a", "b", "c">>

\* C18: a clear hands the empty string to the filter at once, and no value
\* typed before the clear is propagated after it.
C18_ClearIsImmediate ==
    /\ \A c \in 1..Len(events) :
           events[c].kind = "clear" =>
               /\ c < Len(events)
               /\ events[c + 1] = [kind |-> "propagate", at |-> events[c].at,
                                   value |-> << >>, by |-> "handleClear"]
    /\ (events # << >> /\ events[Len(events)].by = "handleClear") =>
           (searchQuery = << >> /\ searchInput = << >>)
    /\ \A c \in 1..Len(events), p \in 1..Len(events) :
           (/\ c < p
            /\ events[c].kind = "clear"
            /\ IsPropagation(events[p])
            /\ events[p].value # << >>) =>
               \E k \in (c + 1)..(p - 1) :
                   /\ events[k].kind = "key"
                   /\ events[k].value = events[p].value

\* C18 witness: the clear came while the timer of "a" was pending, the
\* delay has elapsed since and no timer is left: "a" was never propagated
C18_Witness ==
    /\ events = <<Key(<<"a">>, 0),
                  [kind |-> "clear", at |-> 100, value |-> << >>,
                   by |-> "user"],
                  [kind |-> "propagate", at |-> 100, value |-> << >>,
                   by |-> "handleClear"]>>
    /\ timers = {}
    /\ now >= 400
    /\ searchQuery = << >>

-----------------------------------------------------------------------------
(* Properties of the export (SpecExport) *)

\* C19: the export action writes no file when the collection it is given
\* is empty, and exactly one file, named transactions-<ISO date of the
\* day>.xlsx, when it is not.
C19_ExportWritesOnceOrNever ==
    probe.kind = "export" =>
        IF Len(probe.given) = 0
        THEN Len(written) = probe.writtenBefore
        ELSE /\ Len(written) = probe.writtenBefore + 1
             /\ LET name == written[Len(written)].name
                IN  /\ name.prefix = "transactions-"
                    /\ name.suffix = ".xlsx"
                    /\ name.date * DayMs <= now
                    /\ now < (name.date + 1) * DayMs

\* C19 witness: a first click wrote one file, a second click, on a
\* collection the search had emptied, wrote none
C19_Witness ==
    /\ probe.kind = "export"
    /\ probe.clicks = 2
    /\ probe.given = << >>
    /\ probe.writtenBefore = 1
    /\ Len(written) = 1
    /\ Len(written[1].rows) > 0

\* the rows of the raw collection that pass the criteria of the click
FilteredAtClick ==
    FilteredTransactions(transactions, probe.statuses, dateFrom, dateTo,
                         probe.query)

SameColumns(a, b) ==
    /\ a.hash = b.hash
    /\ a.fromAddress = b.fromAddress
    /\ a.toAddress = b.toAddress
    /\ a.date = b.date

Columns(tx) ==
    [hash |-> tx.hash, fromAddress |-> tx.fromAddress,
     toAddress |-> tx.toAddress, date |-> TimeString(tx)]

\* C20: the exported document has exactly one record per transaction of
\* the filtered collection, whatever currentPage and itemsPerPage are.
C20_ExportCoversFiltered ==
    (probe.kind = "export" /\ Len(probe.given) > 0) =>
        LET rows == written[probe.writtenBefore + 1].rows
            kept == FilteredAtClick
        IN  /\ Len(rows) = Len(kept)
            /\ \A i \in 1..Len(kept) :
                   Cardinality({j \in 1..Len(rows) :
                                   SameColumns(rows[j], Columns(kept[i]))})
                   = Cardinality({j \in 1..Len(kept) :
                                     SameColumns(Columns(kept[j]),
                                                 Columns(kept[i]))})

\* C20 witness: exported from page 2 of 2 with 10 rows per page, the
\* document holds the 15 rows that pass the search, of 22
C20_Witness ==
    /\ probe.kind = "export"
    /\ probe.page = 2
    /\ probe.perPage = 10
    /\ Len(transactions) = 22
    /\ Len(written[probe.writtenBefore + 1].rows) = 15
    /\ Len(FilteredAtClick) = 15

-----------------------------------------------------------------------------
(* Properties of the filter (SpecFilter, and Spec for C6) *)

\* the three criteria, each on its own
PassesStatus(tx) ==
    selectedStatuses = << >>
    \/ tx.status \in {selectedStatuses[i] : i \in 1..Len(selectedStatuses)}

\* the text of the effective time: timestamp, else createdAt
EffectiveTimeText(tx) ==
    IF tx.timestamp.kind \in {"absent", "empty"} THEN tx.createdAt
    ELSE tx.timestamp
HasParseableTime(tx) == EffectiveTimeText(tx).kind = "iso"
EffectiveTime(tx) == EffectiveTimeText(tx).ms

\* 23:59:59.999 of the day of date
LastMsOfDay(date) == Day((date.ms \div DayMs) + 1) - 1

PassesDateRange(tx) ==
    /\ dateFrom.set => (HasParseableTime(tx) /\ EffectiveTime(tx) >= dateFrom.ms)
    /\ dateTo.set =>
          (HasParseableTime(tx) /\ EffectiveTime(tx) <= LastMsOfDay(dateTo))

OccursIgnoringCase(q, text) ==
    \E off \in 0..(Len(text) - Len(q)) :
        \A k \in 1..Len(q) : ToLowerChar(text[off + k]) = ToLowerChar(q[k])

PassesSearch(tx) ==
    searchQuery = << >>
    \/ \E text \in {tx.hash, tx.fromAddress, tx.toAddress} :
          OccursIgnoringCase(searchQuery, text)

ByStatus(rows) == StatusFilter(rows, selectedStatuses)
ByDates(rows) == DateToFilter(DateFromFilter(rows, dateFrom), dateTo)
BySearch(rows) == SearchFilter(rows, searchQuery)

\* C5: the filtered collection is exactly the raw transactions that pass
\* the status AND the date-range AND the search criterion, in raw order,
\* and in whatever order the three criteria are applied.
C5_ConjunctionOfCriteria ==
    probe.kind = "filtered" =>
        /\ probe.rows =
              SelectSeq(transactions,
                        LAMBDA tx : /\ PassesStatus(tx)
                                    /\ PassesDateRange(tx)
                                    /\ PassesSearch(tx))
        /\ probe.rows = BySearch(ByStatus(ByDates(transactions)))
        /\ probe.rows = ByDates(BySearch(ByStatus(transactions)))
        /\ probe.rows = ByDates(ByStatus(BySearch(transactions)))
        /\ probe.rows = ByStatus(BySearch(ByDates(transactions)))
        /\ probe.rows = ByStatus(ByDates(BySearch(transactions)))

\* C5 witness: all three criteria are active and one of two raw rows is kept
C5_Witness ==
    /\ probe.kind = "filtered"
    /\ Len(selectedStatuses) > 0
    /\ dateFrom.set
    /\ Len(searchQuery) > 0
    /\ Len(transactions) = 2
    /\ Len(probe.rows) = 1

\* C6: with selectedStatuses empty, both date bounds absent and searchQuery
\* empty, the filtered collection equals the raw collection; an empty
\* status selection passes every status.
C6_NoCriteriaKeepsAll ==
    /\ (selectedStatuses = << >> /\ ~dateFrom.set /\ ~dateTo.set
            /\ searchQuery = << >>)
          => filteredTransactions = transactions
    /\ selectedStatuses = << >>
          => filteredTransactions = BySearch(ByDates(transactions))

\* C6 witness: no criterion is set and the list shows a loaded collection
\* holding every status
C6_Witness ==
    /\ ListShown
    /\ selectedStatuses = << >> /\ ~dateFrom.set /\ ~dateTo.set
    /\ searchQuery = << >>
    /\ {transactions[i].status : i \in 1..Len(transactions)} = Statuses

\* C8: with dateFrom set a transaction passes only if its effective time is
\* >= dateFrom; with dateTo set only if it is <= 23:59:59.999 of dateTo's
\* day; a transaction with no parseable effective time fails whenever a
\* bound is set and passes when none is.
C8_DateRange ==
    probe.kind = "filtered" =>
        /\ \A i \in 1..Len(probe.rows) : PassesDateRange(probe.rows[i])
        /\ (selectedStatuses = << >> /\ searchQuery = << >>) =>
              /\ probe.rows = SelectSeq(transactions, PassesDateRange)
              /\ \A i \in 1..Len(transactions) :
                    ~HasParseableTime(transactions[i]) =>
                        ((\E j \in 1..Len(probe.rows) :
                              probe.rows[j] = transactions[i])
                            <=> (~dateFrom.set /\ ~dateTo.set))

\* C8 witness: with dateTo set, a row at the last millisecond of that day
\* is kept and a row at the first millisecond of the next day is dropped
C8_Witness ==
    /\ probe.kind = "filtered"
    /\ dateTo.set
    /\ Len(transactions) = 2
    /\ HasParseableTime(transactions[1])
    /\ EffectiveTime(transactions[1]) = LastMsOfDay(dateTo)
    /\ HasParseableTime(transactions[2])
    /\ EffectiveTime(transactions[2]) = LastMsOfDay(dateTo) + 1
    /\ probe.rows = <<transactions[1]>>

\* C9: with a non-empty searchQuery a transaction passes iff the
\* lower-cased query occurs in the lower-cased hash, fromAddress or
\* toAddress, so queries differing only in letter case select the same
\* transactions; an empty query passes every transaction.
C9_Search ==
    probe.kind = "filtered" =>
        /\ \A i \in 1..Len(probe.rows) : PassesSearch(probe.rows[i])
        /\ (selectedStatuses = << >> /\ ~dateFrom.set /\ ~dateTo.set) =>
              probe.rows = SelectSeq(transactions, PassesSearch)
        /\ \A q \in FilterQueries :
              ToLowerCase(q) = ToLowerCase(searchQuery) =>
                  probe.rows = FilteredTransactions(transactions,
                                                    selectedStatuses,
                                                    dateFrom, dateTo, q)

\* C9 witness: an upper-case query keeps a row that matches only in its
\* toAddress and drops a row that matches nowhere
C9_Witness ==
    /\ probe.kind = "filtered"
    /\ searchQuery = <<"A", "B">>
    /\ Len(transactions) = 2
    /\ Len(probe.rows) = 1
    /\ ~OccursIgnoringCase(searchQuery, probe.rows[1].hash)
    /\ ~OccursIgnoringCase(searchQuery, probe.rows[1].fromAddress)

-----------------------------------------------------------------------------
(* Properties of the raw collection and of the loads (Spec) *)

\* C21: the raw collection is never changed by filtering, sorting,
\* paginating or any other intent: a step changes it only when a fetch
\* completes without failing (the error flag untouched, loading cleared),
\* and then it becomes, as a whole, what that response delivered.
C21_RawReplacedOnlyByLoad ==
    [][transactions' # transactions =>
          /\ inflight' = inflight - 1
          /\ ~loading'
          /\ error' = error
          /\ \E r \in Responses : transactions' = Stored(r)]_vars

\* C21 witness: after a load, a status filter, a search, a sort by amount
\* and a change of page size, the raw collection is still the delivered
\* one, in its order, while the filter keeps fewer rows
C21_Witness ==
    /\ ListShown
    /\ transactions = Dataset(MaxBatches * LoadStep)
    /\ selectedStatuses # << >>
    /\ searchQuery # << >>
    /\ sortField = "amount"
    /\ itemsPerPage # InitialItemsPerPage
    /\ FilteredCount < Len(transactions)

\* C22: a step in which a fetch fails (the error flag rises) leaves the raw
\* collection as it was, shows the error card with its Retry button and
\* starts no fetch; a fetch is started only by a step of its own, Retry or
\* the reload after a creation, and that step clears the error and sets
\* loading; Retry is offered only on the error card.
C22_FailureKeepsRawAndWaits ==
    [][/\ (~error /\ error') =>
              /\ transactions' = transactions
              /\ ErrorCardShown'
              /\ inflight' = inflight - 1
       /\ inflight' > inflight =>
              /\ inflight' = inflight + 1
              /\ loading' /\ ~error'
              /\ transactions' = transactions
       /\ (error /\ ~error') => inflight' = inflight + 1]_vars

\* C22 witness: a reload has failed after a successful load: the error
\* card is shown, the loaded rows are still held and no fetch is in flight
C22_Witness ==
    /\ ErrorCardShown
    /\ transactions = Dataset(LoadStep)
    /\ inflight = 0

-----------------------------------------------------------------------------
(* Properties of the creation form (SpecCreate) *)

\* a create request completes in this step, accepted or rejected
Accepted == created' # created
Rejected == creating /\ ~creating' /\ created' = created

\* C23: a create submission triggers a reload iff the create succeeds: the
\* step in which it succeeds closes the dialog, removes the stored draft
\* and starts exactly one load; the step in which it fails starts no load,
\* leaves the dialog open and keeps the draft; both leave isSubmitting
\* false.
C23_ReloadIffCreated ==
    [][/\ Accepted =>
              /\ ~createFormOpen'
              /\ draft' = "none"
              /\ inflight' = inflight + 1
              /\ ~isSubmitting'
       /\ Rejected =>
              /\ inflight' = inflight
              /\ createFormOpen' = createFormOpen
              /\ draft' = draft
              /\ ~isSubmitting']_vars

-----------------------------------------------------------------------------
(* Frame conditions of the intents (Spec) *)

SortOrSizeChanged ==
    <<sortField, sortDirection, itemsPerPage>>' #
        <<sortField, sortDirection, itemsPerPage>>
FilterChanged == filterVars' # filterVars
\* how many of the four filter variables the step changes
ChangedFilters ==
    Cardinality({i \in 1..4 : filterVars'[i] # filterVars[i]})

\* C24: a step that changes the sort field, the sort direction or the page
\* size (setSort, setItemsPerPage; the list remounting) changes no filter
\* variable and not the raw collection; a step that changes a filter
\* variable (setStatuses, setDateFrom, setDateTo, setSearch,
\* clearAllFilters) changes none of sortField, sortDirection and
\* itemsPerPage; no intent (a step in which no fetch starts or ends)
\* changes the raw collection, loading or the error; and the only step
\* that changes several filter variables at once, clearAllFilters, leaves
\* the selection empty, both dates absent and the query empty.
C24_IntentFrames ==
    [][/\ SortOrSizeChanged => (~FilterChanged /\ transactions' = transactions)
       /\ FilterChanged => ~SortOrSizeChanged
       /\ inflight' = inflight => pageVars' = pageVars
       /\ ChangedFilters >= 2 => FiltersInit']_vars

\* C24 witness: every filter is empty again on a loaded list whose sort
\* and page size are not the initial ones and whose page is not the first
C24_Witness ==
    /\ ListShown
    /\ FiltersInit
    /\ Len(transactions) = MaxBatches * LoadStep
    /\ sortField = "status"
    /\ sortDirection = "asc"
    /\ itemsPerPage = 10
    /\ currentPage = 3

-----------------------------------------------------------------------------
(* Loading and the fetches in flight (SpecCreate) *)

\* C25: loading is true in every state in which at least one fetch is in
\* flight, also when the reload of a successful creation overlaps a load
\* that has not finished; it is false only when no fetch is in flight.
C25_LoadingWhileInFlight == inflight > 0 => loading

-----------------------------------------------------------------------------
(* The input text and the query of the filter (SpecSearchAndClear) *)

\* C26: whenever no debounce timer is pending, the text shown in the
\* search input equals the searchQuery the filter uses, after any sequence
\* of keystrokes, search-bar clears and clearAllFilters intents.
C26_InputMatchesQuery == timers = {} => searchInput = searchQuery

=============================================================================
